---- MODULE Spec2Model ----
(***************************************************************************)
(* Model of OctoBot's order channel (core/channels/exchange/orders.py) and *)
(* of the order lifecycle of Trader (trading/trader/trader.py).            *)
(*                                                                         *)
(* The parts share no state; each has its own specification:              *)
(*   SpecOrders    the channel: registrations, pushes, handoffs, dispatch  *)
(*   SpecAnyKey    the same, the symbol pushed being any key               *)
(*   SpecFaults    the producer's side, with failing steps of perform      *)
(*   SpecLoop      the dispatch loop with failing callbacks and the stop   *)
(*                 flag; SpecLoopFair adds the event loop's scheduling     *)
(*   SpecTrader    the order lifecycle, each operation as one step         *)
(*   SpecRisk      the trader's risk                                       *)
(*   SpecLocks     concurrent calls of the trader and the locks they take  *)
(***************************************************************************)
EXTENDS Integers, Sequences, FiniteSets, TLC

\* ------------------------------------------------------------------ bounds
MaxConsumers == 2      \* consumers registered on the channel
MaxPerform == 3        \* perform calls issued by the producer
MaxQueueSize == 1      \* largest `size` given to new_consumer (0 = unbounded)
MaxOrders == 3         \* orders created by the trader
MaxFaultyPerform == 1  \* perform calls issued where steps of perform may fail
MaxAnyKeyPerform == 1  \* perform calls issued where the symbol pushed may be any key
MaxLoopConsumers == 1  \* consumers registered where the dispatch loop is followed
MaxLoopPerform == 2    \* perform calls issued where the dispatch loop is followed
MaxSetRisk == 3        \* set_risk calls made, the constructor's included
MaxRiskExcess == 2     \* how far out of the risk range the values passed to set_risk go
MaxThreads == 2        \* concurrent callers of the trader
MaxLockOrders == 2     \* orders the concurrent callers close

\* --------------------------------------------------------------- constants
CONFIG_WILDCARD == "*"
Symbols == {"BTC/USD", "ETH/USD"}
Keys == Symbols \cup {CONFIG_WILDCARD}
PushSymbols == Symbols                \* the symbols the exchange feed pushes updates for
OrderIdsOf(symbol) == {<<symbol, 1>>} \* the ids of the orders of a symbol
ConsumerIds == 1..MaxConsumers
QueueSizes == 0..MaxQueueSize

\* ------------------------------------------------------------------- state
VARIABLES
    consumers,      \* channel.consumers: subscription key -> consumers, in registration order
    maxsize,        \* consumer.queue.maxsize (0: unbounded)
    queue,          \* consumer.queue: items put and not yet taken
    putters,        \* queue.put coroutines waiting for a free slot of a full queue
    ready,          \* the event loop's scheduled queue.put coroutines, in scheduling order
    received,       \* per consumer, the callback invocations made by its dispatch loop
    orders_store,   \* personal data: order id -> order (upsert_order)
    issued,         \* history: the perform calls made, in order
    regAt,          \* history: how many performs had been issued when the consumer registered
    should_stop,    \* consumer.should_stop
    loop_pc,        \* where the consumer's dispatch loop (consume) is
    failed_at,      \* history: the number of the consumer's last callback invocation that raised
    push_outcome,   \* history: how the last push ended, and the failure injected into it
    trader,         \* the Trader with its order manager, portfolio, trades manager and notifiers
    last,           \* history: the last Trader operation called, with its arguments
    risk,           \* trader.risk
    risk_calls,     \* history: the values passed to set_risk, in order
    threads,        \* per concurrent caller of the trader: where it is in its call
    portfolio_lock, \* the holder of the portfolio's lock (`with self.portfolio`), or None
    order_locks     \* per order, the holder of the order's lock (`with order`), or None

loopVars == <<should_stop, loop_pc, failed_at>>

chanVars == <<consumers, maxsize, queue, putters, ready, received, orders_store, issued, regAt,
              loopVars, push_outcome>>

traderVars == <<trader, last>>

\* What the channel's operations leave alone, and what the trader's do.
riskVars == <<risk, risk_calls>>

lockVars == <<threads, portfolio_lock, order_locks>>

notChanVars == <<traderVars, riskVars, lockVars>>

notTraderVars == <<chanVars, riskVars, lockVars>>

notRiskVars == <<chanVars, traderVars, lockVars>>

notLockVars == <<chanVars, traderVars, riskVars>>

vars == <<chanVars, traderVars, riskVars, lockVars>>

\* ----------------------------------------------------------------- helpers
Range(s) == {s[i] : i \in DOMAIN s}

\* ------------------------------------------------------------ the channel
\* The number of consumers registered so far.
NbConsumers == Cardinality(UNION {Range(consumers[k]) : k \in DOMAIN consumers})

\* Channel.get_consumers(symbol): the consumers registered under exactly that key.
get_consumers(cons, symbol) ==
    IF symbol \in DOMAIN cons THEN cons[symbol] ELSE <<>>

\* Channel registration: the consumer is appended under its single key.
add_new_consumer(cons, c, symbol) ==
    [k \in DOMAIN cons \cup {symbol} |->
        IF k = symbol THEN Append(get_consumers(cons, symbol), c) ELSE cons[k]]

\* OrdersChannel.new_consumer(callback, size, symbol)
new_consumer(size, symbol) ==
    /\ NbConsumers < MaxConsumers
    /\ LET c == NbConsumers + 1 IN
        /\ consumers' = add_new_consumer(consumers, c, symbol)
        /\ maxsize' = [maxsize EXCEPT ![c] = size]
        /\ regAt' = [regAt EXCEPT ![c] = Len(issued)]
        /\ loop_pc' = [loop_pc EXCEPT ![c] = "run"]
    /\ UNCHANGED <<queue, putters, ready, received, orders_store, issued,
                   should_stop, failed_at, push_outcome, notChanVars>>

\* personal_data.upsert_order(order.id, order): insert or overwrite, last writer wins.
upsert_order(store, order) ==
    [i \in DOMAIN store \cup {order.id} |-> IF i = order.id THEN order ELSE store[i]]

\* OrdersProducer.send(symbol, order): one queue.put scheduled on the loop per
\* consumer registered under `symbol`; the item carries the key it was sent to.
send(rdy, cons, symbol, order) ==
    LET cs == get_consumers(cons, symbol) IN
    rdy \o [i \in 1..Len(cs) |->
              [consumer |-> cs[i], data |-> [symbol |-> symbol, order |-> order]]]

\* Mutant of has_consumer: the test for a registered consumer is lost.
has_consumer_always(cons, symbol) == TRUE

\* The condition of OrdersProducer.perform: some consumer under the wildcard or the symbol.
has_consumer(cons, symbol) ==
    CONFIG_WILDCARD \in DOMAIN cons \/ symbol \in DOMAIN cons

\* The kinds of failure a step of perform may end with: an exception, or the
\* cancellation of the task.
FaultKinds == {"Exception", "CancelledError"}

NoFault == [kind |-> "none", step |-> 0]

\* The failures of one perform: none, or a failure of some kind raised by step
\* `step` of its body: step 0 is the consumer test or upsert_order (nothing is
\* done yet), step n >= 1 the n-th handoff of the fan-out (n - 1 are done).
Faults(cons, symbol) ==
    {NoFault} \cup
    [kind : FaultKinds,
     step : 0..(Len(get_consumers(cons, symbol)) + Len(get_consumers(cons, CONFIG_WILDCARD)))]

\* Mutant of caught: the cancellation is not caught.
caught_exception_only(kind) == kind = "Exception"

\* The except clauses of perform: CancelledError, then Exception.
caught(kind) == kind = "CancelledError" \/ kind = "Exception"

\* Mutant of perform: the second fan-out, to the wildcard key, is forgotten.
perform_no_wildcard(symbol, order, fault) ==
    LET fan_out == send(<<>>, consumers, symbol, order)
        done == IF fault.kind = "none" THEN fan_out ELSE SubSeq(fan_out, 1, fault.step - 1)
    IN
    /\ issued' = Append(issued, [symbol |-> symbol, order |-> order])
    /\ IF has_consumer(consumers, symbol) /\ (fault.kind = "none" \/ fault.step >= 1)
       THEN /\ orders_store' = upsert_order(orders_store, order)
            /\ ready' = ready \o done
       ELSE UNCHANGED <<orders_store, ready>>
    /\ push_outcome' = [fault |-> fault,
                        result |-> IF fault.kind = "none" \/ caught(fault.kind)
                                   THEN "returned" ELSE "raised"]
    /\ UNCHANGED <<consumers, maxsize, queue, putters, received, regAt, loopVars, notChanVars>>

\* OrdersProducer.perform(symbol, order). The body runs up to the step that
\* fails, if one does; a failure the except clauses catch is logged and
\* perform returns, any other propagates to the caller of push.
perform(symbol, order, fault) ==
    LET fan_out == send(send(<<>>, consumers, symbol, order),
                        consumers, CONFIG_WILDCARD, order)
        done == IF fault.kind = "none" THEN fan_out ELSE SubSeq(fan_out, 1, fault.step - 1)
    IN
    /\ issued' = Append(issued, [symbol |-> symbol, order |-> order])
    /\ IF has_consumer(consumers, symbol) /\ (fault.kind = "none" \/ fault.step >= 1)
       THEN /\ orders_store' = upsert_order(orders_store, order)
            /\ ready' = ready \o done
       ELSE UNCHANGED <<orders_store, ready>>
    /\ push_outcome' = [fault |-> fault,
                        result |-> IF fault.kind = "none" \/ caught(fault.kind)
                                   THEN "returned" ELSE "raised"]
    /\ UNCHANGED <<consumers, maxsize, queue, putters, received, regAt, loopVars, notChanVars>>

\* OrdersProducer.push(symbol, order): awaits perform. The order object pushed is
\* a fresh update (ver) of the order with the given id.
push(symbol, id, fault) ==
    /\ Len(issued) < MaxPerform
    /\ perform(symbol, [id |-> id, ver |-> Len(issued) + 1], fault)

\* queue.full()
full(c) == maxsize[c] > 0 /\ Len(queue[c]) >= maxsize[c]

\* The loop runs the oldest scheduled queue.put: it waits while the queue is
\* full (joins the putters), else puts the item.
queue_put ==
    /\ ready # <<>>
    /\ LET c == Head(ready).consumer
           d == Head(ready).data
       IN IF full(c)
          THEN /\ putters' = [putters EXCEPT ![c] = Append(@, d)]
               /\ UNCHANGED queue
          ELSE /\ queue' = [queue EXCEPT ![c] = Append(@, d)]
               /\ UNCHANGED putters
    /\ ready' = Tail(ready)
    /\ UNCHANGED <<consumers, maxsize, received, orders_store, issued, regAt,
                   loopVars, push_outcome, notChanVars>>

\* What a callback invocation may end with.
Outcomes == {"ok", "raise"}

\* queue.get() takes the oldest item and wakes the first waiting putter
\* (rescheduled on the loop), then the callback is called with the item's
\* symbol and order; an exception it raises is logged.
get_and_callback(c, outcome) ==
    /\ queue' = [queue EXCEPT ![c] = Tail(@)]
    /\ IF putters[c] # <<>>
       THEN /\ ready' = Append(ready, [consumer |-> c, data |-> Head(putters[c])])
            /\ putters' = [putters EXCEPT ![c] = Tail(@)]
       ELSE UNCHANGED <<ready, putters>>
    /\ received' = [received EXCEPT ![c] = Append(@, Head(queue[c]))]
    /\ failed_at' = IF outcome = "raise"
                    THEN [failed_at EXCEPT ![c] = Len(received[c]) + 1]
                    ELSE failed_at

\* Mutant of loop_turn: an exception of the callback ends the loop.
loop_turn_raise_ends(c, outcome) ==
    /\ loop_pc[c] = "run"
    /\ IF should_stop[c]
       THEN /\ loop_pc' = [loop_pc EXCEPT ![c] = "done"]
            /\ UNCHANGED <<queue, putters, ready, received, failed_at>>
       ELSE IF queue[c] = <<>>
       THEN /\ loop_pc' = [loop_pc EXCEPT ![c] = "get"]
            /\ UNCHANGED <<queue, putters, ready, received, failed_at>>
       ELSE /\ get_and_callback(c, outcome)
            /\ loop_pc' = IF outcome = "raise" THEN [loop_pc EXCEPT ![c] = "done"]
                          ELSE loop_pc

\* OrdersConsumer.consume, a turn of the loop from its top (the task starts,
\* or the callback of the turn before has returned or raised): the loop ends
\* if should_stop is set; else queue.get() is called: it suspends on an empty
\* queue, else the oldest item is taken and given to the callback.
loop_turn(c, outcome) ==
    /\ loop_pc[c] = "run"
    /\ IF should_stop[c]
       THEN /\ loop_pc' = [loop_pc EXCEPT ![c] = "done"]
            /\ UNCHANGED <<queue, putters, ready, received, failed_at>>
       ELSE IF queue[c] = <<>>
       THEN /\ loop_pc' = [loop_pc EXCEPT ![c] = "get"]
            /\ UNCHANGED <<queue, putters, ready, received, failed_at>>
       ELSE /\ get_and_callback(c, outcome)
            /\ UNCHANGED loop_pc

\* OrdersConsumer.consume, the turn of a loop suspended in queue.get(): an
\* item has arrived, get() returns it and the callback is called; should_stop
\* is looked at again only at the top of the next turn.
get_returns(c, outcome) ==
    /\ loop_pc[c] = "get"
    /\ queue[c] # <<>>
    /\ get_and_callback(c, outcome)
    /\ loop_pc' = [loop_pc EXCEPT ![c] = "run"]

\* OrdersConsumer.consume: the dispatch loop of consumer c makes a step.
consume(c, outcome) ==
    /\ \/ loop_turn(c, outcome)
       \/ get_returns(c, outcome)
    /\ UNCHANGED <<consumers, maxsize, orders_store, issued, regAt, should_stop,
                   push_outcome, notChanVars>>

\* Consumer.stop(): the stop flag of a registered consumer is set.
stop(c) ==
    /\ loop_pc[c] # "none"
    /\ ~should_stop[c]
    /\ should_stop' = [should_stop EXCEPT ![c] = TRUE]
    /\ UNCHANGED <<consumers, maxsize, queue, putters, ready, received, orders_store,
                   issued, regAt, loop_pc, failed_at, push_outcome, notChanVars>>

InitOrders ==
    /\ consumers = <<>>
    /\ maxsize = [c \in ConsumerIds |-> 0]
    /\ queue = [c \in ConsumerIds |-> <<>>]
    /\ putters = [c \in ConsumerIds |-> <<>>]
    /\ ready = <<>>
    /\ received = [c \in ConsumerIds |-> <<>>]
    /\ orders_store = <<>>
    /\ issued = <<>>
    /\ regAt = [c \in ConsumerIds |-> 0]
    /\ should_stop = [c \in ConsumerIds |-> FALSE]
    /\ loop_pc = [c \in ConsumerIds |-> "none"]
    /\ failed_at = [c \in ConsumerIds |-> 0]
    /\ push_outcome = [fault |-> NoFault, result |-> "none"]

\* -------------------------------------------------------------- the trader
None == 0
OrderNos == 1..MaxOrders
OPEN == "open"
FILLED == "filled"
CANCELED == "canceled"

\* The orders created so far.
Created(t) == DOMAIN t.orders

\* The open-order set (OrdersManager.order_list).
OpenOrders(t) == Range(t.order_list)

\* Order.get_linked_orders()
get_linked_orders(t, order) == t.orders[order].linked

\* Portfolio.update_portfolio_available(order, is_new_order=True): the order's
\* funds are reserved.
reserve(t, order) == [t EXCEPT !.reserved = @ \cup {order}]

\* OrdersManager.add_order_to_list(order)
add_order_to_list(t, order) == [t EXCEPT !.order_list = Append(@, order)]

\* OrdersManager.remove_order_from_list(order)
remove_order_from_list(t, order) ==
    [t EXCEPT !.order_list = SelectSeq(@, LAMBDA o : o # order)]

\* Order.add_linked_order(linked)
add_linked_order(t, order, linked) ==
    [t EXCEPT !.orders[order].linked = Append(@, linked)]

\* Order.new(...) with the notifier chosen by create_order: a fresh notifier
\* (named after the order) or the notifier of linked_to.
order_new(t, order, symbol, linked_to) ==
    [t EXCEPT !.orders =
        [o \in DOMAIN t.orders \cup {order} |->
            IF o = order
            THEN [symbol |-> symbol, status |-> OPEN, linked |-> <<>>,
                  notifier |-> IF linked_to = None THEN order
                               ELSE t.orders[linked_to].notifier,
                  cancels |-> 0]
            ELSE t.orders[o]]]

\* Trader.create_order(order_type, symbol, ..., linked_to)
create_order(t, order, symbol, linked_to) ==
    LET t1 == order_new(t, order, symbol, linked_to)
        t2 == reserve(t1, order)
        t3 == add_order_to_list(t2, order)
    IN IF linked_to # None
       THEN add_linked_order(add_linked_order(t3, linked_to, order), order, linked_to)
       ELSE t3

\* Order.cancel_order(): the low-level cancel transition (cancels counts its runs).
order_cancel(t, order) ==
    [t EXCEPT !.orders[order].status = CANCELED, !.orders[order].cancels = @ + 1]

\* Mutant of cancel_order: the order is not removed from the open orders.
cancel_order_keeps_open(t, order) == order_cancel(t, order)

\* Trader.cancel_order(order)
cancel_order(t, order) == remove_order_from_list(order_cancel(t, order), order)

RECURSIVE cancel_all(_, _)
\* The loop of notify_order_close over the linked orders.
cancel_all(t, linked) ==
    IF linked = <<>> THEN t
    ELSE cancel_all(cancel_order(t, Head(linked)), Tail(linked))

\* Portfolio.reset_portfolio_available(): the availability is recomputed in
\* full from the open orders; every other reservation is released.
reset_portfolio_available(t) ==
    [t EXCEPT !.reserved = OpenOrders(t), !.recomputes = @ + 1]

\* Portfolio.update_portfolio(order): the fill is applied; only the
\* reservation of this order is resolved.
update_portfolio(t, order) == [t EXCEPT !.reserved = @ \ {order}]

\* TradesManager.add_new_trade_in_history(Trade(exchange, order))
add_new_trade_in_history(t, order) == [t EXCEPT !.trades = Append(@, order)]

\* Mutant of orders_canceled_of: a forced cancel forgets the order itself.
orders_canceled_linked_only(t, order, cancel) == get_linked_orders(t, order)

\* The canceled orders notify_order_close reports.
orders_canceled_of(t, order, cancel) ==
    IF cancel THEN get_linked_orders(t, order) \o <<order>>
    ELSE get_linked_orders(t, order)

\* The closed order notify_order_close reports.
order_closed_of(order, cancel) == IF cancel THEN None ELSE order

\* profitability_activated
profitability_activated(order_closed) ==
    IF order_closed # None THEN TRUE ELSE FALSE

\* OrderNotifier.end(order_closed, orders_canceled, ..., profitability_activated)
notifier_end(t, notifier, order_closed, orders_canceled, activated) ==
    [t EXCEPT !.ended = Append(@, [notifier |-> notifier,
                                   order_closed |-> order_closed,
                                   orders_canceled |-> orders_canceled,
                                   activated |-> activated])]

\* The forced-cancel branch of notify_order_close: the order is canceled and
\* the ledger's availability is recomputed in full.
close_canceled(t, order) == reset_portfolio_available(cancel_order(t, order))

\* Mutant of close_filled: the ledger is recomputed in full on a fill too.
close_filled_full_recompute(t, order) ==
    remove_order_from_list(
        add_new_trade_in_history(reset_portfolio_available(update_portfolio(t, order)), order),
        order)

\* The fill branch of notify_order_close: the ledger is updated with the
\* ended order, the trade is recorded, the order leaves the open orders.
close_filled(t, order) ==
    remove_order_from_list(
        add_new_trade_in_history(update_portfolio(t, order), order),
        order)

\* Trader.notify_order_close(order, cancel). The call is logged on entry
\* (history) with the order's linked orders as they are then.
notify_order_close(t, order, cancel) ==
    LET t0 == [t EXCEPT !.calls = Append(@, [order |-> order, cancel |-> cancel,
                                             linked |-> get_linked_orders(t, order)])]
        t1 == cancel_all(t0, get_linked_orders(t0, order))
        order_closed == order_closed_of(order, cancel)
        orders_canceled == orders_canceled_of(t1, order, cancel)
        t2 == IF cancel THEN close_canceled(t1, order) ELSE close_filled(t1, order)
    IN notifier_end(t2, t2.orders[order].notifier, order_closed, orders_canceled,
                    profitability_activated(order_closed))

\* Mutant of must_cancel: the status of the order is not looked at.
must_cancel_any_status(t, order, symbol) == t.orders[order].symbol = symbol

\* Mutant of must_cancel: the symbol of the order is not looked at.
must_cancel_any_symbol(t, order, symbol) == t.orders[order].status # CANCELED

\* The test of cancel_open_orders on each order of the snapshot.
must_cancel(t, order, symbol) ==
    t.orders[order].symbol = symbol /\ t.orders[order].status # CANCELED

RECURSIVE cancel_each(_, _, _)
\* The loop of cancel_open_orders over the snapshot of the open orders.
cancel_each(t, snapshot, symbol) ==
    IF snapshot = <<>> THEN t
    ELSE cancel_each(IF must_cancel(t, Head(snapshot), symbol)
                     THEN notify_order_close(t, Head(snapshot), TRUE)
                     ELSE t,
                     Tail(snapshot), symbol)

\* Trader.cancel_open_orders(symbol)
cancel_open_orders(t, symbol) == cancel_each(t, t.order_list, symbol)

\* The order's own fill transition, which precedes its call of notify_order_close.
order_filled(t, order) == [t EXCEPT !.orders[order].status = FILLED]

\* The risk range (config.cst), in tenths.
CONFIG_TRADER_RISK_MIN == 1
CONFIG_TRADER_RISK_MAX == 10

\* config[CONFIG_TRADER][CONFIG_TRADER_RISK] of the default configuration.
ConfigRisk == 5

\* The values passed to set_risk: the range and some values on each side of it.
RiskInputs ==
    (CONFIG_TRADER_RISK_MIN - MaxRiskExcess)..(CONFIG_TRADER_RISK_MAX + MaxRiskExcess)

\* Mutant of set_risk: the upper limit is not looked at.
set_risk_no_max(value) ==
    IF value < CONFIG_TRADER_RISK_MIN THEN CONFIG_TRADER_RISK_MIN ELSE value

\* Trader.set_risk(risk): the value self.risk is given.
set_risk(value) ==
    IF value < CONFIG_TRADER_RISK_MIN THEN CONFIG_TRADER_RISK_MIN
    ELSE IF value > CONFIG_TRADER_RISK_MAX THEN CONFIG_TRADER_RISK_MAX
    ELSE value

\* Trader.__init__: self.risk = None, then set_risk(the configured risk).
InitRisk(config_risk) ==
    /\ risk = set_risk(config_risk)
    /\ risk_calls = <<config_risk>>

InitTrader ==
    /\ trader = [order_list |-> <<>>, orders |-> <<>>, reserved |-> {},
                 recomputes |-> 0, trades |-> <<>>, ended |-> <<>>, calls |-> <<>>]
    /\ last = [op |-> "init"]

\* create_order with a symbol and, possibly, an open order to link to.
CreateOrder ==
    \E symbol \in Symbols, linked_to \in {None} \cup OpenOrders(trader) :
        /\ Cardinality(Created(trader)) < MaxOrders
        /\ LET order == Cardinality(Created(trader)) + 1 IN
            /\ trader' = create_order(trader, order, symbol, linked_to)
            /\ last' = [op |-> "create_order", order |-> order]
        /\ UNCHANGED notTraderVars

\* cancel_open_orders(symbol)
CancelOpenOrders ==
    \E symbol \in Symbols :
        /\ trader' = cancel_open_orders(trader, symbol)
        /\ last' = [op |-> "cancel_open_orders", symbol |-> symbol]
        /\ UNCHANGED notTraderVars

\* notify_order_close(order, True): a forced cancel of an open order.
NotifyOrderCancelled ==
    \E order \in OpenOrders(trader) :
        /\ trader' = notify_order_close(trader, order, TRUE)
        /\ last' = [op |-> "notify_order_close", order |-> order, cancel |-> TRUE]
        /\ UNCHANGED notTraderVars

\* notify_order_close(order): an open order is filled and reports it.
NotifyOrderFilled ==
    \E order \in OpenOrders(trader) :
        /\ trader' = notify_order_close(order_filled(trader, order), order, FALSE)
        /\ last' = [op |-> "notify_order_close", order |-> order, cancel |-> FALSE]
        /\ UNCHANGED notTraderVars

\* set_risk(value) on the constructed trader.
SetRisk ==
    \E value \in RiskInputs :
        /\ Len(risk_calls) < MaxSetRisk
        /\ risk' = set_risk(value)
        /\ risk_calls' = Append(risk_calls, value)
        /\ UNCHANGED notRiskVars

NextRisk == SetRisk

\* ----------------------------------------- the trader's calls and the locks
\* Concurrent callers run Trader's operations. An operation is followed
\* through its `with` blocks only: each block enters (the lock is acquired),
\* runs its body, which may raise, and exits (the lock is released).
ThreadIds == 1..MaxThreads
LockOrders == 1..MaxLockOrders

\* A `with` block: the lock it is on, "portfolio" (`with self.portfolio`) or
\* "order" (`with order`), and whether the body is inside a `with` at all.
portfolio_block == [lock |-> "portfolio", order |-> None, guarded |-> TRUE]

order_block(order) == [lock |-> "order", order |-> order, guarded |-> TRUE]

\* Trader.cancel_order(order): `with order as odr: odr.cancel_order()`.
cancel_order_blocks(order) == <<order_block(order)>>

\* Trader.create_order:
\* `with self.portfolio as pf: pf.update_portfolio_available(order, is_new_order=True)`.
create_order_blocks == <<portfolio_block>>

\* Mutant of notify_order_cancel_blocks: the ledger is updated outside of any `with`.
notify_order_cancel_blocks_unguarded ==
    <<[lock |-> "portfolio", order |-> None, guarded |-> FALSE]>>

\* Trader.notify_order_cancel:
\* `with self.portfolio as pf: pf.update_portfolio_available(order, is_new_order=False)`.
notify_order_cancel_blocks == <<portfolio_block>>

RECURSIVE cancel_all_blocks(_)
\* The loop of notify_order_close over the linked orders: cancel_order on each.
cancel_all_blocks(linked) ==
    IF linked = <<>> THEN <<>>
    ELSE cancel_order_blocks(Head(linked)) \o cancel_all_blocks(Tail(linked))

\* Trader.notify_order_close(order, cancel): the linked orders are canceled;
\* then, on a forced cancel, the order is canceled and the ledger recomputed
\* (`with self.portfolio as pf: pf.reset_portfolio_available()`), on a fill
\* the ledger is updated (`with self.portfolio as pf: pf.update_portfolio(order)`).
notify_order_close_blocks(order, linked, cancel) ==
    cancel_all_blocks(linked) \o
    (IF cancel THEN cancel_order_blocks(order) \o <<portfolio_block>>
     ELSE <<portfolio_block>>)

\* The calls the concurrent callers make; the linked orders of an order closed
\* are none or some other order.
LockCalls ==
    {[name |-> "create_order", order |-> None, linked |-> <<>>, cancel |-> FALSE]}
    \cup {[name |-> "notify_order_cancel", order |-> o, linked |-> <<>>, cancel |-> FALSE] :
             o \in LockOrders}
    \cup UNION {{[name |-> "notify_order_close", order |-> o, linked |-> l, cancel |-> c] :
                    c \in BOOLEAN, l \in {<<>>} \cup {<<b>> : b \in LockOrders \ {o}}} :
                 o \in LockOrders}

blocks_of(call) ==
    CASE call.name = "create_order" -> create_order_blocks
      [] call.name = "notify_order_cancel" -> notify_order_cancel_blocks
      [] call.name = "notify_order_close" ->
            notify_order_close_blocks(call.order, call.linked, call.cancel)

\* A caller enters one of Trader's operations.
thread_call(t, call) ==
    /\ threads[t].pc = "idle"
    /\ threads' = [threads EXCEPT ![t] = [pc |-> "enter", todo |-> blocks_of(call), raised |-> FALSE]]
    /\ UNCHANGED <<portfolio_lock, order_locks, notLockVars>>

\* __enter__ of Portfolio and of Order: the caller waits for the lock and takes it.
with_enter(t) ==
    /\ threads[t].pc = "enter"
    /\ LET block == Head(threads[t].todo) IN
        IF ~block.guarded THEN UNCHANGED <<portfolio_lock, order_locks>>
        ELSE IF block.lock = "portfolio"
        THEN /\ portfolio_lock = None
             /\ portfolio_lock' = t
             /\ UNCHANGED order_locks
        ELSE /\ order_locks[block.order] = None
             /\ order_locks' = [order_locks EXCEPT ![block.order] = t]
             /\ UNCHANGED portfolio_lock
    /\ threads' = [threads EXCEPT ![t].pc = "body"]
    /\ UNCHANGED notLockVars

\* The body of the `with` block (the ledger mutation, or the order's cancel)
\* runs to its end or raises.
with_body(t, outcome) ==
    /\ threads[t].pc = "body"
    /\ threads' = [threads EXCEPT ![t].pc = "exit", ![t].raised = (outcome = "raise")]
    /\ UNCHANGED <<portfolio_lock, order_locks, notLockVars>>

\* __exit__ of Portfolio and of Order: the lock is released, whether the body
\* raised or not; an exception goes on to the caller of the operation, else
\* the operation goes on to its next block or returns.
with_exit(t) ==
    /\ threads[t].pc = "exit"
    /\ LET block == Head(threads[t].todo) IN
        /\ portfolio_lock' = IF block.guarded /\ block.lock = "portfolio" THEN None
                             ELSE portfolio_lock
        /\ order_locks' = IF block.guarded /\ block.lock = "order"
                          THEN [order_locks EXCEPT ![block.order] = None]
                          ELSE order_locks
    /\ threads' = [threads EXCEPT ![t] =
            IF @.raised THEN [@ EXCEPT !.pc = "raised"]
            ELSE IF Tail(@.todo) = <<>> THEN [@ EXCEPT !.pc = "done"]
            ELSE [@ EXCEPT !.pc = "enter", !.todo = Tail(@)]]
    /\ UNCHANGED notLockVars

\* The caller is back from the operation and may call another.
thread_return(t) ==
    /\ threads[t].pc \in {"done", "raised"}
    /\ threads' = [threads EXCEPT ![t] = [pc |-> "idle", todo |-> <<>>, raised |-> FALSE]]
    /\ UNCHANGED <<portfolio_lock, order_locks, notLockVars>>

InitLocks ==
    /\ threads = [t \in ThreadIds |-> [pc |-> "idle", todo |-> <<>>, raised |-> FALSE]]
    /\ portfolio_lock = None
    /\ order_locks = [o \in LockOrders |-> None]

ThreadCall == \E t \in ThreadIds, call \in LockCalls : thread_call(t, call)
WithEnter == \E t \in ThreadIds : with_enter(t)
WithBody == \E t \in ThreadIds, outcome \in Outcomes : with_body(t, outcome)
WithExit == \E t \in ThreadIds : with_exit(t)
ThreadReturn == \E t \in ThreadIds : thread_return(t)

NextLocks == ThreadCall \/ WithEnter \/ WithBody \/ WithExit \/ ThreadReturn

NextTrader == CreateOrder \/ CancelOpenOrders \/ NotifyOrderCancelled \/ NotifyOrderFilled

NewConsumer == \E size \in QueueSizes, symbol \in Keys : new_consumer(size, symbol)
\* push without a failure.
Push == \E symbol \in PushSymbols : \E id \in OrderIdsOf(symbol) : push(symbol, id, NoFault)
QueuePut == queue_put
\* A step of a dispatch loop whose callback returns.
Consume == \E c \in ConsumerIds : consume(c, "ok")

NextOrders == NewConsumer \/ Push \/ QueuePut \/ Consume

\* push where a step of perform may fail.
PushFaulty ==
    \E symbol \in PushSymbols : \E id \in OrderIdsOf(symbol) :
        \E fault \in Faults(consumers, symbol) :
            /\ Len(issued) < MaxFaultyPerform
            /\ push(symbol, id, fault)

NextFaults == NewConsumer \/ PushFaulty \/ QueuePut

Init == InitOrders /\ InitTrader /\ InitRisk(ConfigRisk) /\ InitLocks

\* The trader constructed with any configured risk.
InitAnyRisk ==
    InitOrders /\ InitTrader /\ InitLocks /\ \E config_risk \in RiskInputs : InitRisk(config_risk)

SpecOrders == Init /\ [][NextOrders]_vars

SpecTrader == Init /\ [][NextTrader]_vars

\* push with any string the channel knows as symbol, the wildcard included.
PushAnyKey ==
    \E symbol \in Keys : \E id \in OrderIdsOf(symbol) :
        /\ Len(issued) < MaxAnyKeyPerform
        /\ push(symbol, id, NoFault)

NextAnyKey == NewConsumer \/ PushAnyKey \/ QueuePut \/ Consume

\* The channel where the symbol of a push is any key.
SpecAnyKey == Init /\ [][NextAnyKey]_vars

\* A consumer registers (its dispatch loop starts).
NewLoopConsumer == NbConsumers < MaxLoopConsumers /\ NewConsumer

PushLoop == Len(issued) < MaxLoopPerform /\ Push

\* A step of the dispatch loop of consumer c, whose callback returns or raises.
ConsumeAny(c) == \E outcome \in Outcomes : consume(c, outcome)

ConsumeAnyOutcome == \E c \in ConsumerIds : ConsumeAny(c)

Stop == \E c \in ConsumerIds : stop(c)

NextLoop == NewLoopConsumer \/ PushLoop \/ QueuePut \/ ConsumeAnyOutcome \/ Stop

\* The dispatch loop of a consumer, with failing callbacks and the stop flag.
SpecLoop == Init /\ [][NextLoop]_vars

\* The same under the scheduling of the event loop: a scheduled queue.put is
\* run, a dispatch loop that can make a step makes it. Nothing obliges the
\* producer to push, a subscriber to register or anybody to stop a consumer.
SpecLoopFair ==
    /\ SpecLoop
    /\ WF_vars(QueuePut)
    /\ \A c \in ConsumerIds : WF_vars(ConsumeAny(c))

\* The risk of a trader, from its construction on.
SpecRisk == InitAnyRisk /\ [][NextRisk]_vars

\* Concurrent calls of the trader's operations, and the locks they take.
SpecLocks == Init /\ [][NextLocks]_vars

\* The producer's side of the channel, with failing steps of perform: the
\* handoffs reach the queues, no dispatch loop takes them out.
SpecFaults == Init /\ [][NextFaults]_vars

\* ------------------------------------------------------ channel properties
\* The items handed over for consumer c so far: delivered to its callback, in
\* its queue, waiting for a slot, or scheduled on the loop.
ScheduledFor(c) ==
    LET mine == SelectSeq(ready, LAMBDA r : r.consumer = c)
    IN [i \in 1..Len(mine) |-> mine[i].data]

HandedTo(c) == received[c] \o queue[c] \o putters[c] \o ScheduledFor(c)

\* The performs issued since consumer c registered.
IssuedSince(c) == {j \in 1..Len(issued) : j > regAt[c]}

Registered(c, k) == k \in DOMAIN consumers /\ c \in Range(consumers[k])

\* C1: a consumer registered under a specific symbol is handed exactly the
\* updates performed for that symbol (each once, none for another symbol); a
\* consumer registered under the wildcard is handed every performed update.
C1_SymbolAndWildcardRouting ==
    \A k \in DOMAIN consumers : \A c \in Range(consumers[k]) :
        LET got == {d.order : d \in Range(HandedTo(c))}
            forKey == {issued[j].order : j \in {i \in IssuedSince(c) : issued[i].symbol = k}}
            all == {issued[j].order : j \in IssuedSince(c)}
        IN IF k # CONFIG_WILDCARD
           THEN got = forKey /\ Len(HandedTo(c)) = Cardinality(forKey)
           ELSE got = all

\* C1 witness: the scenario of the specification: consumer 1 under "BTC/USD",
\* consumer 2 under the wildcard, an update pushed for "BTC/USD" and then one
\* for "ETH/USD"; consumer 1 received the first only, consumer 2 both.
C1_Witness ==
    /\ Registered(1, "BTC/USD") /\ Registered(2, CONFIG_WILDCARD)
    /\ regAt[1] = 0 /\ regAt[2] = 0
    /\ Len(issued) = 2
    /\ issued[1].symbol = "BTC/USD" /\ issued[2].symbol = "ETH/USD"
    /\ [i \in 1..Len(received[1]) |-> received[1][i].order] = <<issued[1].order>>
    /\ [i \in 1..Len(received[2]) |-> received[2][i].order] = <<issued[1].order, issued[2].order>>

\* C2: a perform for which no consumer is registered under the wildcard nor
\* under the pushed symbol writes nothing to the order store and enqueues nothing.
C2_NoConsumerNoEffect ==
    [][(/\ Len(issued') = Len(issued) + 1
        /\ CONFIG_WILDCARD \notin DOMAIN consumers
        /\ issued'[Len(issued')].symbol \notin DOMAIN consumers)
       => (/\ orders_store' = orders_store
           /\ ready' = ready
           /\ queue' = queue
           /\ putters' = putters
           /\ received' = received)]_vars

\* C2 witness: a consumer registered under "ETH/USD" before any perform, then
\* a perform for "BTC/USD": the store is still empty and nothing was handed over.
C2_Witness ==
    /\ DOMAIN consumers = {"ETH/USD"}
    /\ regAt[1] = 0
    /\ Len(issued) = 1 /\ issued[1].symbol = "BTC/USD"
    /\ orders_store = <<>>
    /\ HandedTo(1) = <<>>

\* C3 (as claimed): every consumer's callback sees the updates in the order the
\* producer issued them, whatever the size of its queue.
C3_DeliveryInIssueOrder ==
    \A c \in ConsumerIds : \A i, j \in 1..Len(received[c]) :
        i < j => received[c][i].order.ver <= received[c][j].order.ver

\* ------------------------------------------------------- trader properties
\* How many end events mention the order, as the closed one or as a canceled one.
Mentions(t, order) ==
    Len(SelectSeq(t.ended, LAMBDA e :
            e.order_closed = order \/ order \in Range(e.orders_canceled)))

\* How many fills of the order the trade history holds.
Fills(t, order) == Len(SelectSeq(t.trades, LAMBDA o : o = order))

\* C4: every notify_order_close calls the notifier's end once, with: on a
\* forced cancel no closed order, the linked orders plus the order as canceled
\* and the flag false; on a fill the order as closed, its linked orders as
\* canceled and the flag true.
C4_EndCalledOncePerClose ==
    /\ Len(trader.ended) = Len(trader.calls)
    /\ \A i \in 1..Len(trader.calls) :
        LET c == trader.calls[i]
            e == trader.ended[i]
        IN /\ e.notifier = trader.orders[c.order].notifier
           /\ c.cancel => /\ e.order_closed = None
                          /\ e.orders_canceled = c.linked \o <<c.order>>
                          /\ e.activated = FALSE
           /\ ~c.cancel => /\ e.order_closed = c.order
                           /\ e.orders_canceled = c.linked
                           /\ e.activated = TRUE
           /\ e.activated <=> e.order_closed # None

\* C4 witness: a fill and a forced cancel have both been notified, each for an
\* order with a linked order.
C4_Witness ==
    \E i, j \in 1..Len(trader.ended) :
        /\ trader.calls[i].cancel /\ trader.calls[i].linked # <<>>
        /\ ~trader.calls[j].cancel /\ trader.calls[j].linked # <<>>
        /\ trader.ended[j].activated

\* C5 (as claimed): the orders holding a reservation are the open orders.
C5_ReservationsAreOpenOrders == trader.reserved = OpenOrders(trader)

\* C6 (as claimed): notify_order_close being called on open orders only, an
\* open order has had no terminal transition and an order no longer open has
\* had exactly one (a cancel or a fill).
C6_OneTerminalTransition ==
    \A o \in Created(trader) :
        LET n == trader.orders[o].cancels + Fills(trader, o)
        IN IF o \in OpenOrders(trader) THEN n = 0 ELSE n = 1

\* C7 (as claimed): every order whose life ended is mentioned by exactly one
\* end event.
C7_OneNotificationPerOrder ==
    \A o \in Created(trader) :
        o \notin OpenOrders(trader) => Mentions(trader, o) = 1

\* C8: once notify_order_close(A, cancel) has been called, every order linked
\* to A is out of the open orders and has had its cancel transition run.
C8_LinkedOrdersCanceled ==
    \A i \in 1..Len(trader.calls) : \A b \in Range(trader.calls[i].linked) :
        /\ b \notin OpenOrders(trader)
        /\ trader.orders[b].status = CANCELED
        /\ trader.orders[b].cancels >= 1

\* C8 witness: the last operation is the fill close of an order with a linked
\* order, which is now canceled.
C8_Witness ==
    /\ last.op = "notify_order_close" /\ ~last.cancel
    /\ trader.orders[last.order].linked # <<>>
    /\ \A b \in Range(trader.orders[last.order].linked) :
           trader.orders[b].status = CANCELED /\ b \notin OpenOrders(trader)

\* C9: cancel_open_orders(symbol) calls notify_order_close at most once on the
\* two legs of a linked pair; for a pair linked to nothing else it calls it
\* exactly once, emits one notification naming both legs, and each call it
\* makes recomputes the ledger once: one recompute when the pair is all there
\* is to cancel.
C9_OneCloseWorkflowPerPair ==
    [][last'.op = "cancel_open_orders" =>
        LET newCalls == SubSeq(trader'.calls, Len(trader.calls) + 1, Len(trader'.calls))
            newEnded == SubSeq(trader'.ended, Len(trader.ended) + 1, Len(trader'.ended))
            onLegs(a, b) == SelectSeq(newCalls, LAMBDA c : c.order \in {a, b})
            about(a, b) == SelectSeq(newEnded, LAMBDA e :
                               {a, b} \cap Range(e.orders_canceled) # {})
        IN /\ trader'.recomputes - trader.recomputes = Len(newCalls)
           /\ Len(newEnded) = Len(newCalls)
           /\ \A a, b \in OpenOrders(trader) :
                (/\ trader.orders[a].symbol = last'.symbol
                 /\ b \in Range(trader.orders[a].linked))
                => /\ Len(onLegs(a, b)) <= 1
                   /\ (trader.orders[a].linked = <<b>> /\ trader.orders[b].linked = <<a>>)
                      => /\ Len(onLegs(a, b)) = 1
                         /\ Len(about(a, b)) = 1
                         /\ about(a, b)[1].order_closed = None
                         /\ about(a, b)[1].orders_canceled \in {<<a, b>>, <<b, a>>}
                         /\ (\A o \in OpenOrders(trader) \ {a, b} :
                                trader.orders[o].symbol # last'.symbol)
                            => /\ trader'.recomputes = trader.recomputes + 1
                               /\ Len(newEnded) = 1
    ]_vars

\* C9 witness: the scenario of the specification: O1 and O2 linked and of the
\* same symbol, O3 unlinked of another symbol; cancel_open_orders(symbol of O1)
\* has recomputed once and notified once, for both legs; O3 is still open.
C9_Witness ==
    /\ last.op = "cancel_open_orders"
    /\ Created(trader) = {1, 2, 3}
    /\ trader.orders[1].linked = <<2>> /\ trader.orders[2].linked = <<1>>
    /\ trader.orders[1].symbol = last.symbol /\ trader.orders[2].symbol = last.symbol
    /\ trader.orders[3].symbol # last.symbol
    /\ trader.order_list = <<3>>
    /\ trader.recomputes = 1
    /\ Len(trader.ended) = 1 /\ trader.ended[1].orders_canceled = <<2, 1>>

\* C10: cancel_open_orders(symbol) leaves alone every open order of another
\* symbol that is linked to no open order of that symbol: it stays open, its
\* status does not change, it keeps its reservation and no new notification
\* mentions it.
C10_OtherSymbolsUntouched ==
    [][last'.op = "cancel_open_orders" =>
        \A o \in OpenOrders(trader) :
            (/\ trader.orders[o].symbol # last'.symbol
             /\ \A l \in Range(trader.orders[o].linked) \cap OpenOrders(trader) :
                    trader.orders[l].symbol # last'.symbol)
            => /\ o \in OpenOrders(trader')
               /\ trader'.orders[o] = trader.orders[o]
               /\ o \in trader.reserved /\ o \in trader'.reserved
               /\ Mentions(trader', o) = Mentions(trader, o)
    ]_vars

\* C10 witness: cancel_open_orders has canceled orders of its symbol, and an
\* order of another symbol is still open, reserved and mentioned nowhere, its
\* own linked order (of its symbol too) having been canceled by the cascade.
C10_Witness ==
    /\ last.op = "cancel_open_orders"
    /\ trader.recomputes = 1
    /\ \E o \in OpenOrders(trader) :
        /\ trader.orders[o].symbol # last.symbol
        /\ trader.orders[o].status = OPEN
        /\ o \in trader.reserved
        /\ Mentions(trader, o) = 0
        /\ \E l \in Range(trader.orders[o].linked) :
               trader.orders[l].symbol # last.symbol /\ trader.orders[l].status = CANCELED

\* The linked group of an order: the orders sharing its notifier (the order,
\* the orders created linked to it or to another member of the group).
Group(t, order) == {o \in Created(t) : t.orders[o].notifier = t.orders[order].notifier}

\* C11 (as claimed): once notify_order_close has been called on a member of a
\* linked group (a pair, a star or a chain), no order of the group is open.
C11_ClosingCancelsWholeGroup ==
    \A i \in 1..Len(trader.calls) :
        Group(trader, trader.calls[i].order) \cap OpenOrders(trader) = {}

\* The close workflows run so far, forced cancels (cancel = TRUE) or fills.
Closes(t, cancel) == SelectSeq(t.calls, LAMBDA c : c.cancel = cancel)

\* C16: the fill closes are the trade records, one each and in their order,
\* and no forced cancel adds one; a fill close resolves the filled order's
\* reservation and recomputes nothing: the full recomputes are the forced cancels.
C16_OneTradePerFillClose ==
    /\ trader.trades = [i \in 1..Len(Closes(trader, FALSE)) |-> Closes(trader, FALSE)[i].order]
    /\ trader.recomputes = Len(Closes(trader, TRUE))
    /\ \A o \in Range(trader.trades) : o \notin trader.reserved

\* C16 witness: a forced cancel, then the fill close of an order with a linked
\* order: one trade record, one recompute (the cancel's), and the canceled
\* linked order keeps its reservation, the fill having recomputed nothing.
C16_Witness ==
    /\ Len(trader.calls) = 2
    /\ trader.calls[1].cancel /\ ~trader.calls[2].cancel
    /\ trader.calls[2].linked # <<>>
    /\ trader.trades = <<trader.calls[2].order>>
    /\ trader.recomputes = 1
    /\ Range(trader.calls[2].linked) \subseteq trader.reserved

\* C17: after the construction and after every set_risk the stored risk is in
\* [CONFIG_TRADER_RISK_MIN, CONFIG_TRADER_RISK_MAX]: the minimum for a value
\* below it, the maximum for a value above it, the value itself otherwise.
C17_RiskClamped ==
    LET value == risk_calls[Len(risk_calls)] IN
    /\ CONFIG_TRADER_RISK_MIN <= risk /\ risk <= CONFIG_TRADER_RISK_MAX
    /\ value < CONFIG_TRADER_RISK_MIN => risk = CONFIG_TRADER_RISK_MIN
    /\ value > CONFIG_TRADER_RISK_MAX => risk = CONFIG_TRADER_RISK_MAX
    /\ (CONFIG_TRADER_RISK_MIN <= value /\ value <= CONFIG_TRADER_RISK_MAX) => risk = value

\* C17 witness: a trader configured with a risk below the range, then set_risk
\* with a value inside the range and set_risk with one above it: the maximum
\* is stored.
C17_Witness ==
    /\ Len(risk_calls) = 3
    /\ risk_calls[1] < CONFIG_TRADER_RISK_MIN
    /\ risk_calls[2] \in CONFIG_TRADER_RISK_MIN..CONFIG_TRADER_RISK_MAX
    /\ risk_calls[3] > CONFIG_TRADER_RISK_MAX
    /\ risk = CONFIG_TRADER_RISK_MAX

\* ------------------------------------------- channel properties (failures)
\* C12: push never propagates a failure of perform (an exception or a
\* cancellation raised by upsert_order or by a handoff of the fan-out): it
\* returns; and no step ever takes back an update handed over for a consumer:
\* what was handed over before the failure stays on its way to the callback.
C12_PushNeverPropagates ==
    [][/\ Len(issued') = Len(issued) + 1 => push_outcome'.result = "returned"
       /\ \A c \in ConsumerIds :
            /\ Range(HandedTo(c)) \subseteq Range(HandedTo(c))'
            /\ Len(HandedTo(c)) <= Len(HandedTo(c))'
      ]_vars

\* C12 witness: two consumers registered for the update; the fan-out failed at
\* its second handoff and push returned; the first consumer has the update in
\* its queue, nothing was handed over for the second.
C12_Witness ==
    /\ Len(issued) = 1
    /\ push_outcome.fault.kind \in FaultKinds /\ push_outcome.fault.step = 2
    /\ push_outcome.result = "returned"
    /\ \E c, d \in ConsumerIds :
        /\ c # d /\ regAt[c] = 0 /\ regAt[d] = 0
        /\ \E k \in {issued[1].symbol, CONFIG_WILDCARD} : Registered(d, k)
        /\ Len(queue[c]) = 1 /\ queue[c][1].order = issued[1].order
        /\ HandedTo(d) = <<>>

\* ------------------------------------------ channel properties (dispatch loop)
\* C13: an exception raised by the callback does not end the dispatch loop:
\* the loop of a consumer that is not stopped has not ended, it is at the top
\* of a turn or in queue.get(), where it takes the next item enqueued.
C13_CallbackFailureKeepsLoop ==
    \A c \in ConsumerIds :
        (loop_pc[c] # "none" /\ ~should_stop[c]) => loop_pc[c] \in {"run", "get"}

\* C13 witness: the first callback invocation of a consumer raised, and the
\* next item was taken and given to the callback; the consumer is not stopped.
C13_Witness ==
    \E c \in ConsumerIds :
        /\ failed_at[c] = 1
        /\ Len(received[c]) = 2
        /\ ~should_stop[c]

\* C14 (as claimed): once the stop flag of a consumer is set, its callback is
\* invoked for no further item.
C14_NoCallbackAfterStop ==
    [][\A c \in ConsumerIds : should_stop[c] => received'[c] = received[c]]_vars

\* How many times the update of the j-th perform was handed over for consumer c.
TimesHanded(c, j) == Len(SelectSeq(HandedTo(c), LAMBDA d : d.order = issued[j].order))

\* C15 (as claimed): whatever the symbol of a perform, no consumer is handed
\* its update more than once.
C15_NoDuplicatePerPerform ==
    \A c \in ConsumerIds : \A j \in 1..Len(issued) : TimesHanded(c, j) <= 1

\* C18 (as claimed): every callback invocation is given the symbol of the
\* perform call that issued its update, under whatever key the consumer registered.
C18_CallbackGetsPerformSymbol ==
    \A c \in ConsumerIds : \A i \in 1..Len(received[c]) :
        received[c][i].symbol = issued[received[c][i].order.ver].symbol

\* C19 (as claimed): once the stop flag is set the dispatch loop ends.
C19_StoppedLoopEnds ==
    \A c \in ConsumerIds : should_stop[c] ~> loop_pc[c] = "done"

\* ------------------------------------------------------------ lock properties
\* The caller is inside a ledger mutation.
InLedgerMutation(t) ==
    threads[t].pc = "body" /\ Head(threads[t].todo).lock = "portfolio"

\* The caller holds some lock.
HoldsLock(t) == portfolio_lock = t \/ \E o \in LockOrders : order_locks[o] = t

\* The caller can make a step.
CanStep(t) ==
    \/ threads[t].pc \in {"body", "exit", "done", "raised"}
    \/ /\ threads[t].pc = "enter"
       /\ LET block == Head(threads[t].todo) IN
            IF block.lock = "portfolio" THEN portfolio_lock = None
            ELSE order_locks[block.order] = None

\* C20: with create_order, notify_order_cancel and notify_order_close called
\* concurrently, a ledger mutation runs only while its caller holds the
\* portfolio's lock and no two overlap; a caller that is out of a `with` block
\* (returned, raised, or waiting for a lock) holds no lock: the lock is
\* released on every exit path, and nobody waits for the portfolio's lock
\* holding an order's lock; and while a caller waits for a lock some caller
\* can make a step: there is no deadlock.
C20_LedgerLockDiscipline ==
    /\ \A t \in ThreadIds : InLedgerMutation(t) => portfolio_lock = t
    /\ \A t, u \in ThreadIds : (InLedgerMutation(t) /\ InLedgerMutation(u)) => t = u
    /\ \A t \in ThreadIds :
          threads[t].pc \in {"idle", "enter", "done", "raised"} => ~HoldsLock(t)
    /\ (\E t \in ThreadIds : threads[t].pc = "enter") => \E u \in ThreadIds : CanStep(u)

\* C20 witness: the ledger mutation of a caller raised and the caller is out
\* of its operation; another caller, closing an order with a linked order, has
\* canceled under the orders' locks, has taken the portfolio's lock since and
\* is inside its own ledger mutation.
C20_Witness ==
    \E t, u \in ThreadIds :
        /\ threads[t].pc = "raised" /\ Head(threads[t].todo).lock = "portfolio"
        /\ InLedgerMutation(u) /\ portfolio_lock = u
        /\ \A o \in LockOrders : order_locks[o] = None

====
